---- MODULE Spec2Model ----
(***************************************************************************)
(* Model of manage.py (Minecraft game manager): GameService.post_start,    *)
(* GameService.pre_stop, GameService.get_player_count,                      *)
(* GameService.option_value_updated, GameService.is_api_enabled and         *)
(* GameApp.check_update_available.                                          *)
(*                                                                         *)
(* Strings are sequences of one-character strings, so that slicing,         *)
(* searching, stripping and int() are computed character by character.      *)
(* Optional values (Python None) are sequences of length 0 or 1.            *)
(***************************************************************************)
EXTENDS Integers, Sequences, FiniteSets, TLC

VARIABLES
    pc,            \* position of the running handler ("idle" between calls)
    op,            \* name of the handler being run
    enableRcon,    \* option 'Enable RCON'
    rconPort,      \* option 'RCON Port'
    rconPassword,  \* option 'RCON Password'
    counter,       \* post_start: local variable counter
    step,          \* pre_stop: index into timers of the current iteration
    log,           \* observable effects of the running handler, in order
    result,        \* return value of the handler: "none", "true", "false"
    exc,           \* exception that left the handler, "" when none
    apiIn,         \* get_player_count: outcome of the _api_cmd('/list') call
    gpcOut,        \* get_player_count: what the call produced
    fwRules,       \* firewall rules currently open: set of <<port, proto>>
    fwArgs,        \* option_value_updated: arguments of the running call
    markerExists,  \* check_update_available: a local version marker exists
    feedReachable, \* check_update_available: the remote feed is reachable
    notice,        \* the notification sent: its template, the name, the text
    portOpt        \* the stored values of the options, "" (<<>>) when unset

vars == <<pc, op, enableRcon, rconPort, rconPassword, counter, step, log,
          result, exc, apiIn, gpcOut, fwRules, fwArgs, markerExists,
          feedReachable, notice, portOpt>>

(***************************************************************************)
(* Bounds of the model                                                     *)
(***************************************************************************)
\* largest player count the simulated console reports
MaxCount == 1
\* largest port number offered to option_value_updated is 25565 + MaxPortOffset
MaxPortOffset == 1

(***************************************************************************)
(* Program constants                                                       *)
(***************************************************************************)
MaxAttemptsMut == 24 + 1
MaxAttempts == 24
PollSleepMut == 10 + 5
PollSleep == 10
SaveSettle == 5
MarkerLen == 10

\* the bug of waiting a full minute after the 1 minute warning
TimersMut == <<60, 60, 60, 60, 60, 30, 0>>
\* the bug of waiting after the last warning as well
TimersWaitAfterNow == <<60, 60, 60, 60, 30, 30, 30>>
\* the shutdown warning schedule: the wait of each of the 7 steps
Timers == <<60, 60, 60, 60, 30, 30, 0>>

(***************************************************************************)
(* Strings                                                                 *)
(***************************************************************************)
None == <<>>
Some(v) == <<v>>

ThereAre == <<"T", "h", "e", "r", "e", " ", "a", "r", "e", " ">>
OfAMax == <<" ", "o", "f", " ", "a", " ", "m", "a", "x">>

Digits == <<"0", "1", "2", "3", "4", "5", "6", "7", "8", "9">>
IsDigit(c) == \E i \in 1..10 : Digits[i] = c
DigitVal(c) == (CHOOSE i \in 1..10 : Digits[i] = c) - 1

Min(a, b) == IF a < b THEN a ELSE b

\* Python s[a:b] for 0 <= a, 0 <= b
Slice(s, a, b) == SubSeq(s, a + 1, Min(b, Len(s)))

\* sub occurs in s at 0-based offset i
OccursAt(s, sub, i) ==
    /\ i + Len(sub) <= Len(s)
    /\ \A j \in 1..Len(sub) : s[i + j] = sub[j]

\* Python: sub in s
Contains(s, sub) == \E i \in 0..Len(s) : OccursAt(s, sub, i)

\* Python: s.index(sub), the lowest offset; only used when Contains(s, sub)
Index(s, sub) ==
    CHOOSE i \in 0..Len(s) :
        /\ OccursAt(s, sub, i)
        /\ \A k \in 0..(i - 1) : ~OccursAt(s, sub, k)

RECURSIVE LStrip(_)
LStrip(s) == IF s # <<>> /\ Head(s) = " " THEN LStrip(Tail(s)) ELSE s

RECURSIVE RStrip(_)
RStrip(s) ==
    IF s # <<>> /\ s[Len(s)] = " " THEN RStrip(SubSeq(s, 1, Len(s) - 1)) ELSE s

\* Python: s.strip()
Strip(s) == RStrip(LStrip(s))

AllDigits(s) == s # <<>> /\ \A i \in 1..Len(s) : IsDigit(s[i])

\* int(s) succeeds: an optional sign followed by decimal digits
IsInt(s) ==
    IF s # <<>> /\ Head(s) \in {"-", "+"} THEN AllDigits(Tail(s)) ELSE AllDigits(s)

RECURSIVE DecVal(_)
DecVal(s) ==
    IF s = <<>> THEN 0
    ELSE 10 * DecVal(SubSeq(s, 1, Len(s) - 1)) + DigitVal(s[Len(s)])

\* Python: int(s), only used when IsInt(s)
ToInt(s) ==
    IF Head(s) = "-" THEN 0 - DecVal(Tail(s))
    ELSE IF Head(s) = "+" THEN DecVal(Tail(s))
    ELSE DecVal(s)

\* str(n) for 0 <= n
RECURSIVE Str(_)
Str(n) == IF n < 10 THEN <<Digits[n + 1]>> ELSE Str(n \div 10) \o <<Digits[(n % 10) + 1]>>

(***************************************************************************)
(* The console (RCONService._api_cmd) as seen by its callers               *)
(***************************************************************************)
Text(t) == [kind |-> "text", text |-> t]
NoReply == [kind |-> "none", text |-> <<>>]
ApiFailure == [kind |-> "raise", text |-> <<>>]

Prefixes == {<<>>, <<"x">>, OfAMax}
Bodies ==
    {Str(n) : n \in 0..MaxCount}
        \cup {<<" ">> \o Str(1) \o <<" ">>, <<"1", "2">>, <<"-", "1">>, <<"x">>, <<>>}
Suffixes == {<<>>, <<" ", "o", "f", " ", "2", "0">>}

\* replies of the console to '/list' that the model simulates
Responses ==
    {pre \o m1 \o body \o m2 \o suf :
        pre \in Prefixes, m1 \in {<<>>, ThereAre}, body \in Bodies,
        m2 \in {<<>>, OfAMax}, suf \in Suffixes}

\* every outcome of one _api_cmd call: a reply, no reply (None), or a failure
\* raised as GameAPIException
ApiOutcomes == {Text(t) : t \in Responses} \cup {NoReply, ApiFailure}

\* the reply 'There are n of a max of 20'
ListReply(n) == Text(ThereAre \o Str(n) \o OfAMax \o <<" ", "o", "f", " ", "2", "0">>)

\* the outcomes of '/list' simulated while post_start and pre_stop run: they
\* tell apart no count, zero and a positive count only
ListOutcomes ==
    {ListReply(n) : n \in {0, MaxCount}}
        \cup {Text(<<"x">>), Text(ThereAre \o <<"x">> \o OfAMax), NoReply, ApiFailure}

\* the outcomes of a command whose reply the caller ignores
CmdOutcomes == {"ok", "raise"}

(***************************************************************************)
(* GameService.get_player_count                                            *)
(***************************************************************************)
Returned(v) == [raised |-> FALSE, val |-> v]
Raised == [raised |-> TRUE, val |-> None]

\* ret[10:ret.index(' of a max')].strip()
CountText(ret) == Strip(Slice(ret, MarkerLen, Index(ret, OfAMax)))

get_player_count(api) ==
    IF api.kind = "raise" THEN Returned(None)
    ELSE IF api.kind = "none" THEN Returned(None)
    ELSE IF Contains(api.text, ThereAre)
         THEN IF ~Contains(api.text, OfAMax) THEN Raised
              ELSE IF IsInt(CountText(api.text))
                   THEN Returned(Some(ToInt(CountText(api.text))))
                   ELSE Raised
         ELSE Returned(None)

(***************************************************************************)
(* GameService.is_api_enabled                                              *)
(***************************************************************************)
is_api_enabledMut == enableRcon
is_api_enabledNoPassword == enableRcon /\ rconPort # ""
is_api_enabledNoPort == enableRcon /\ rconPassword # ""
is_api_enabled == enableRcon /\ rconPort # "" /\ rconPassword # ""

(***************************************************************************)
(* Observable effects                                                      *)
(***************************************************************************)
Ev(kind, arg, n) == [ev |-> kind, arg |-> arg, n |-> n]
Cmd(what, n) == Ev("cmd", what, n)
Players(v) == IF v = None THEN Ev("players", "none", 0) ELSE Ev("players", "some", v[1])
Sleep(secs) == Ev("sleep", "", secs)
Discord(which) == Ev("discord", which, 0)

(***************************************************************************)
(* The notification templates and their rendering                          *)
(***************************************************************************)
Token == <<"{", "i", "n", "s", "t", "a", "n", "c", "e", "}">>

\* values of 'Instance Started (Discord)' / 'Instance Stopping (Discord)'
Templates ==
    {<<"u", "p">>,
     Token \o <<"!">>,
     <<"a">> \o Token \o <<"b">> \o Token,
     <<"{">> \o Token}

\* values of 'Level Name' (get_name)
Names == {<<"w">>, Token}

\* Python: s.replace(old, new): every non-overlapping occurrence, left to right
RECURSIVE Replace(_, _, _)
Replace(s, old, new) ==
    IF s = <<>> THEN <<>>
    ELSE IF OccursAt(s, old, 0)
         THEN new \o Replace(SubSeq(s, Len(old) + 1, Len(s)), old, new)
         ELSE <<Head(s)>> \o Replace(Tail(s), old, new)

\* the bug of replacing the first occurrence only
RECURSIVE ReplaceFirst(_, _, _)
ReplaceFirst(s, old, new) ==
    IF s = <<>> THEN <<>>
    ELSE IF OccursAt(s, old, 0)
         THEN new \o SubSeq(s, Len(old) + 1, Len(s))
         ELSE <<Head(s)>> \o ReplaceFirst(Tail(s), old, new)

\* if '{instance}' in msg: msg = msg.replace('{instance}', self.get_name())
RenderMut(msg, name) == IF Contains(msg, Token) THEN ReplaceFirst(msg, Token, name) ELSE msg
Render(msg, name) == IF Contains(msg, Token) THEN Replace(msg, Token, name) ELSE msg

Notice(msg, name) == [tpl |-> msg, name |-> name, text |-> Render(msg, name)]
NoNotice == [tpl |-> <<>>, name |-> <<>>, text |-> <<>>]

(***************************************************************************)
(* Initial state                                                           *)
(***************************************************************************)
Init ==
    /\ pc = "idle"
    /\ op = ""
    /\ enableRcon \in BOOLEAN
    /\ rconPort \in {"", "25575"}
    /\ rconPassword \in {"", "secret"}
    /\ counter = 0
    /\ step = 1
    /\ log = <<>>
    /\ result = "none"
    /\ exc = ""
    /\ apiIn = NoReply
    /\ gpcOut = Returned(None)
    /\ fwRules = {}
    /\ fwArgs = <<"", <<>>, <<>>>>
    /\ markerExists = FALSE
    /\ feedReachable = FALSE
    /\ notice = NoNotice
    /\ portOpt = [o \in {"Server Port", "Query Port", "Max Players"} |-> <<>>]

cfgVars == <<enableRcon, rconPort, rconPassword, portOpt>>
otherOps == <<apiIn, gpcOut, fwRules, fwArgs, markerExists, feedReachable>>

(***************************************************************************)
(* GameService.post_start                                                  *)
(***************************************************************************)
\* players is not None
ApiIsUpMut(players) == players # None /\ players[1] > 0
ApiIsUp(players) == players # None

PostStartBegin ==
    /\ pc = "idle"
    /\ op' = "post_start"
    /\ log' = <<>>
    /\ exc' = ""
    /\ counter' = 0
    /\ IF is_api_enabled
       THEN pc' = "ps_loop" /\ result' = "none"
       ELSE pc' = "done" /\ result' = "true"
    /\ UNCHANGED <<cfgVars, otherOps, step, notice>>

\* one iteration of: while counter < 24
PostStartPoll ==
    /\ pc = "ps_loop"
    /\ counter < MaxAttempts
    /\ \E api \in ListOutcomes, msg \in Templates, name \in Names :
        LET r == get_player_count(api) IN
        IF r.raised
        THEN /\ log' = log \o <<Cmd("/list", 0)>>
             /\ exc' = "ValueError"
             /\ pc' = "raised"
             /\ UNCHANGED <<counter, result, notice>>
        ELSE IF ApiIsUp(r.val)
        THEN /\ log' = log \o <<Cmd("/list", 0), Players(r.val), Discord("started")>>
             /\ notice' = Notice(msg, name)
             /\ result' = "true"
             /\ pc' = "done"
             /\ UNCHANGED <<counter, exc>>
        ELSE /\ log' = log \o <<Cmd("/list", 0), Players(r.val), Sleep(PollSleep)>>
             /\ counter' = counter + 1
             /\ UNCHANGED <<pc, result, exc, notice>>
    /\ UNCHANGED <<cfgVars, otherOps, op, step>>

\* the loop ran out: return False
PostStartExhausted ==
    /\ pc = "ps_loop"
    /\ ~(counter < MaxAttempts)
    /\ result' = "false"
    /\ pc' = "done"
    /\ UNCHANGED <<cfgVars, otherOps, op, counter, step, log, exc, notice>>

(***************************************************************************)
(* GameService.pre_stop                                                    *)
(***************************************************************************)
\* players is not None and players > 0
PlayersOnlineMut(players) == players # None
PlayersOnline(players) == players # None /\ players[1] > 0

\* GameService.send_message: self._api_cmd('/say %s' % message), the message
\* being that of step i of the schedule
send_messageMut(i) == Ev("discord", "warning", i)
send_message(i) == Cmd("/say", i)

PreStopBegin ==
    /\ pc = "idle"
    /\ op' = "pre_stop"
    /\ \E msg \in Templates, name \in Names : notice' = Notice(msg, name)
    /\ log' = <<Discord("stopping")>>
    /\ exc' = ""
    /\ step' = 1
    /\ IF is_api_enabled
       THEN pc' = "st_loop" /\ result' = "none"
       ELSE pc' = "done" /\ result' = "true"
    /\ UNCHANGED <<cfgVars, otherOps, counter>>

\* one iteration of: for timer in timers
PreStopStep ==
    /\ pc = "st_loop"
    /\ step <= Len(Timers)
    /\ \E api \in ListOutcomes, sent \in CmdOutcomes :
        LET r == get_player_count(api) IN
        IF r.raised
        THEN /\ log' = log \o <<Cmd("/list", step)>>
             /\ exc' = "ValueError"
             /\ pc' = "raised"
             /\ UNCHANGED step
        ELSE IF PlayersOnline(r.val)
        THEN IF sent = "raise"
             THEN /\ log' = log \o <<Cmd("/list", step), Players(r.val), send_message(step)>>
                  /\ exc' = "GameAPIException"
                  /\ pc' = "raised"
                  /\ UNCHANGED step
             ELSE /\ log' = log \o <<Cmd("/list", step), Players(r.val), send_message(step)>>
                            \o (IF Timers[step] # 0 THEN <<Sleep(Timers[step])>> ELSE <<>>)
                  /\ step' = step + 1
                  /\ pc' = IF step = Len(Timers) THEN "st_save" ELSE "st_loop"
                  /\ UNCHANGED exc
        ELSE /\ log' = log \o <<Cmd("/list", step), Players(r.val)>>
             /\ pc' = "st_save"
             /\ UNCHANGED <<step, exc>>
    /\ UNCHANGED <<cfgVars, otherOps, op, counter, result, notice>>

\* self._api_cmd('save-all flush'); time.sleep(5); return True
PreStopSave ==
    /\ pc = "st_save"
    /\ \E saved \in CmdOutcomes :
        IF saved = "raise"
        THEN /\ log' = log \o <<Cmd("save-all flush", 0)>>
             /\ exc' = "GameAPIException"
             /\ pc' = "raised"
             /\ UNCHANGED result
        ELSE /\ log' = log \o <<Cmd("save-all flush", 0), Sleep(SaveSettle)>>
             /\ result' = "true"
             /\ pc' = "done"
             /\ UNCHANGED exc
    /\ UNCHANGED <<cfgVars, otherOps, op, counter, step, notice>>

(***************************************************************************)
(* GameService.get_player_count, called on its own                         *)
(***************************************************************************)
GetPlayerCountCall ==
    /\ pc = "idle"
    /\ \E api \in ApiOutcomes :
        /\ apiIn' = api
        /\ gpcOut' = get_player_count(api)
        /\ pc' = IF get_player_count(api).raised THEN "raised" ELSE "done"
        /\ exc' = IF get_player_count(api).raised THEN "ValueError" ELSE ""
    /\ op' = "get_player_count"
    /\ log' = <<Cmd("/list", 0)>>
    /\ result' = "none"
    /\ UNCHANGED <<cfgVars, counter, step, fwRules, fwArgs, markerExists, feedReachable,
                   notice>>

(***************************************************************************)
(* GameService.option_value_updated                                        *)
(***************************************************************************)
Options == {"Server Port", "Query Port", "Max Players"}
PortStrings == {Str(25565 + k) : k \in 0..MaxPortOffset}

\* if previous_value:
HasPreviousMut(previous_value) == FALSE
HasPrevious(previous_value) == previous_value # <<>>

\* the transport of a port option
ProtoMut(option) == "tcp"
Proto(option) == IF option = "Server Port" THEN "tcp" ELSE "udp"

RecognizedMut(option) == TRUE
Recognized(option) == option = "Server Port" \/ option = "Query Port"

\* the firewall calls of option_value_updated(option, previous_value, new_value)
FirewallCalls(option, previous_value, new_value) ==
    IF Recognized(option)
    THEN (IF HasPrevious(previous_value)
          THEN <<Ev("firewall_remove", Proto(option), ToInt(previous_value))>>
          ELSE <<>>)
         \o <<Ev("firewall_allow", Proto(option), ToInt(new_value))>>
    ELSE <<>>

firewall_remove(rules, port, proto) == rules \ {<<port, proto>>}
firewall_allow(rules, port, proto) == rules \cup {<<port, proto>>}

RECURSIVE ApplyCalls(_, _)
ApplyCalls(rules, calls) ==
    IF calls = <<>> THEN rules
    ELSE ApplyCalls(
            IF Head(calls).ev = "firewall_remove"
            THEN firewall_remove(rules, Head(calls).n, Head(calls).arg)
            ELSE firewall_allow(rules, Head(calls).n, Head(calls).arg),
            Tail(calls))

\* one call option_value_updated(option, previous_value, new_value)
UpdateCall(option, previous_value, new_value) ==
    /\ pc = "idle"
    /\ fwArgs' = <<option, previous_value, new_value>>
    /\ log' = FirewallCalls(option, previous_value, new_value)
    /\ fwRules' = ApplyCalls(fwRules, FirewallCalls(option, previous_value, new_value))
    /\ op' = "option_value_updated"
    /\ pc' = "done"
    /\ result' = "none"
    /\ exc' = ""
    /\ UNCHANGED <<enableRcon, rconPort, rconPassword, counter, step, apiIn, gpcOut,
                   markerExists, feedReachable, notice>>

\* the handler called with any arguments
option_value_updated ==
    /\ \E option \in Options, previous_value \in PortStrings \cup {<<>>},
          new_value \in PortStrings :
        UpdateCall(option, previous_value, new_value)
    /\ UNCHANGED portOpt

\* the handler called when an option is set: the previous value passed is the
\* value stored by the preceding call, empty before the first
set_option ==
    \E option \in Options, new_value \in PortStrings :
        /\ UpdateCall(option, portOpt[option], new_value)
        /\ portOpt' = [portOpt EXCEPT ![option] = new_value]

(***************************************************************************)
(* GameApp.check_update_available                                          *)
(***************************************************************************)
check_update_available ==
    /\ pc = "idle"
    /\ markerExists' \in BOOLEAN
    /\ feedReachable' \in BOOLEAN
    /\ op' = "check_update_available"
    /\ result' = "false"
    /\ pc' = "done"
    /\ log' = <<>>
    /\ exc' = ""
    /\ UNCHANGED <<cfgVars, counter, step, apiIn, gpcOut, fwRules, fwArgs, notice>>

(***************************************************************************)
(* The handler has returned or raised: the caller may call the next one.   *)
(* Nothing but the firewall and the configuration outlives a call.         *)
(***************************************************************************)
Finish ==
    /\ pc \in {"done", "raised"}
    /\ pc' = "idle"
    /\ op' = ""
    /\ counter' = 0
    /\ step' = 1
    /\ log' = <<>>
    /\ result' = "none"
    /\ exc' = ""
    /\ apiIn' = NoReply
    /\ gpcOut' = Returned(None)
    /\ fwArgs' = <<"", <<>>, <<>>>>
    /\ markerExists' = FALSE
    /\ feedReachable' = FALSE
    /\ notice' = NoNotice
    /\ UNCHANGED <<cfgVars, fwRules>>

Next ==
    \/ PostStartBegin
    \/ PostStartPoll
    \/ PostStartExhausted
    \/ PreStopBegin
    \/ PreStopStep
    \/ PreStopSave
    \/ GetPlayerCountCall
    \/ option_value_updated
    \/ check_update_available
    \/ Finish

Spec == Init /\ [][Next]_vars

\* Options are only ever set through set_option, starting with none set and no
\* firewall rule open.
ChainNext ==
    \/ set_option
    \/ Finish

ChainSpec == Init /\ [][ChainNext]_vars

\* The handlers are sequential code: once called, a handler runs on until it
\* returns or raises. Calling a handler is left to the caller.
FairSpec ==
    /\ Init
    /\ [][Next]_vars
    /\ WF_vars(PostStartPoll)
    /\ WF_vars(PostStartExhausted)
    /\ WF_vars(PreStopStep)
    /\ WF_vars(PreStopSave)

TypeOK ==
    /\ pc \in {"idle", "ps_loop", "st_loop", "st_save", "done", "raised"}
    /\ result \in {"none", "true", "false"}
    /\ counter \in 0..MaxAttempts
    /\ step \in 1..(Len(Timers) + 1)

(***************************************************************************)
(* Reading the log                                                         *)
(***************************************************************************)
IsList(e) == e.ev = "cmd" /\ e.arg = "/list"
IsSay(e) == e.ev = "cmd" /\ e.arg = "/say"
IsSave(e) == e.ev = "cmd" /\ e.arg = "save-all flush"
IsCmd(e) == e.ev = "cmd"
IsPlayers(e) == e.ev = "players"
IsSleep(e) == e.ev = "sleep"
IsDiscord(e) == e.ev = "discord"
IsPositive(e) == e.ev = "players" /\ e.arg = "some" /\ e.n > 0
IsDefined(e) == e.ev = "players" /\ e.arg = "some"

Count(P(_)) == Len(SelectSeq(log, P))

\* the length of the longest leading run of positive counts
RECURSIVE Lead(_)
Lead(s) == IF s = <<>> \/ ~IsPositive(Head(s)) THEN 0 ELSE 1 + Lead(Tail(s))
LeadingRun == Lead(SelectSeq(log, IsPlayers))

\* the configuration that enables the API: flag set, port and password non-empty
ApiOn == enableRcon /\ rconPort # "" /\ rconPassword # ""

Ended == pc \in {"done", "raised"}

(***************************************************************************)
(* Claims                                                                  *)
(***************************************************************************)

\* C1: pre_stop with the API enabled, every get_player_count call having
\* returned a count: when pre_stop has ended, the number of warnings sent is
\* the length of the leading run of positive counts (at most 7), no warning
\* follows the first count that is zero or None, and the forced save
\* 'save-all flush' has been issued after the last query and warning.
C1_WarningsThenSave ==
    (op = "pre_stop" /\ ApiOn /\ Ended /\ exc # "ValueError") =>
        /\ Count(IsSay) = Min(LeadingRun, 7)
        /\ \A i \in 1..Len(log) : \A j \in (i + 1)..Len(log) :
              (IsPlayers(log[i]) /\ ~IsPositive(log[i])) => ~IsSay(log[j])
        /\ \E i \in 1..Len(log) :
              /\ IsSave(log[i])
              /\ \A j \in (i + 1)..Len(log) : ~IsCmd(log[j])

\* C2: post_start with the API enabled, once a poll has returned a defined
\* count (zero included): it is the k-th poll (1 <= k <= 24) and the only
\* defined one, exactly k polls were made, every poll before it was followed
\* by a 10 second wait, no wait follows it, exactly one 'instance started'
\* notification was sent, and post_start returned success.
C2_FirstDefinedPoll ==
    (op = "post_start" /\ ApiOn /\ Count(IsDefined) > 0) =>
        LET k == Count(IsList) IN
        /\ k \in 1..24
        /\ k = counter + 1
        /\ Len(log) = 3 * k
        /\ \A i \in 1..(k - 1) :
              /\ IsList(log[3 * i - 2])
              /\ log[3 * i - 1] = Ev("players", "none", 0)
              /\ log[3 * i] = Ev("sleep", "", 10)
        /\ IsList(log[3 * k - 2])
        /\ IsDefined(log[3 * k - 1])
        /\ log[3 * k] = Ev("discord", "started", 0)
        /\ pc = "done"
        /\ result = "true"

\* a fifth poll reporting zero players ended post_start
C2_Witness ==
    /\ op = "post_start"
    /\ pc = "done"
    /\ Count(IsList) = 5
    /\ log[Len(log) - 1] = Ev("players", "some", 0)

\* C3: post_start with the API enabled and every poll returning None: it
\* ends only after exactly 24 polls, by returning False (it does not raise),
\* and it sends no notification.
C3_AllPollsNone ==
    (op = "post_start" /\ ApiOn /\ Count(IsDefined) = 0
        /\ Count(IsPlayers) = Count(IsList)) =>
        /\ Count(IsDiscord) = 0
        /\ Count(IsList) <= 24
        /\ pc # "raised"
        /\ Ended => (result = "false" /\ Count(IsList) = 24 /\ exc = "")

\* post_start gave up after its polls all returned None
C3_Witness ==
    /\ op = "post_start"
    /\ pc = "done"
    /\ result = "false"
    /\ Count(IsPlayers) = 24

\* C4: pre_stop with the API enabled always ends by returning True with the
\* forced save issued, whatever console command failed on the way (the
\* parse failure of a count reply set aside).
C4_PreStopAlwaysSucceeds ==
    (op = "pre_stop" /\ ApiOn /\ Ended /\ exc # "ValueError") =>
        /\ pc = "done"
        /\ result = "true"
        /\ Count(IsSave) = 1

\* C5: pre_stop with the API disabled has sent exactly the one 'instance
\* stopping' notification, issued no console command, not waited, and
\* returned True.
C5_DisabledPreStop ==
    (op = "pre_stop" /\ ~ApiOn) =>
        /\ log = <<Ev("discord", "stopping", 0)>>
        /\ pc = "done"
        /\ result = "true"

\* pre_stop ran with RCON switched on but no password configured
C5_Witness ==
    /\ op = "pre_stop"
    /\ pc = "done"
    /\ enableRcon
    /\ rconPassword = ""
    /\ Count(IsDiscord) = 1

\* C6: post_start with the API disabled has returned True at once: no
\* get_player_count call, no wait, no notification.
C6_DisabledPostStart ==
    (op = "post_start" /\ ~ApiOn) =>
        /\ log = <<>>
        /\ counter = 0
        /\ pc = "done"
        /\ result = "true"

\* post_start ran with RCON switched on but no port configured
C6_Witness ==
    /\ op = "post_start"
    /\ pc = "done"
    /\ enableRcon
    /\ rconPort = ""
    /\ result = "true"

\* the console replied 'There are n of a max...' for some n in 0..MaxCount
WellFormed(api, n) ==
    /\ api.kind = "text"
    /\ \E suf \in Suffixes : api.text = ThereAre \o Str(n) \o OfAMax \o suf

\* C7: get_player_count returns exactly N for every reply of the form
\* 'There are N of a max M...', and returns None for every reply that lacks
\* the 'There are ' marker or the ' of a max' marker and when there is no
\* reply (connection failure).
C7_CountOrNone ==
    op = "get_player_count" =>
        /\ \A n \in 0..MaxCount :
              WellFormed(apiIn, n) => gpcOut = [raised |-> FALSE, val |-> <<n>>]
        /\ (\/ apiIn.kind # "text"
            \/ ~Contains(apiIn.text, ThereAre)
            \/ ~Contains(apiIn.text, OfAMax))
              => gpcOut = [raised |-> FALSE, val |-> <<>>]

\* C8: get_player_count never raises: when both markers are present and the
\* text between them is no integer, and when the console command fails, it
\* returns None.
C8_NeverRaises ==
    (/\ op = "get_player_count"
     /\ \/ apiIn.kind # "text"
        \/ Contains(apiIn.text, ThereAre) /\ Contains(apiIn.text, OfAMax)) =>
        /\ pc = "done"
        /\ ~gpcOut.raised
        /\ (apiIn.kind = "text" /\ ~IsInt(CountText(apiIn.text)))
              => gpcOut.val = <<>>

\* C9: check_update_available returns true whenever no local version marker
\* exists, whether or not the remote feed is reachable.
C9_NoMarkerMeansUpdate ==
    (op = "check_update_available" /\ pc = "done" /\ ~markerExists) =>
        result = "true"

\* the port number a value of PortStrings denotes
PortOf(value) == CHOOSE q \in 25565..(25565 + MaxPortOffset) : Str(q) = value

\* C10: option_value_updated on 'Server Port' (tcp) or 'Query Port' (udp):
\* with a previous value, the rule of the old port is removed and then the
\* rule of the new port is opened, both with the option's transport; without
\* a previous value nothing is removed and exactly one rule is opened. Any
\* other option makes no firewall call.
C10_FirewallCalls ==
    op = "option_value_updated" =>
        LET option == fwArgs[1]
            previous_value == fwArgs[2]
            new_value == fwArgs[3]
            proto == IF option = "Server Port" THEN "tcp" ELSE "udp"
        IN  IF option \in {"Server Port", "Query Port"}
            THEN IF previous_value # <<>>
                 THEN /\ log = <<Ev("firewall_remove", proto, PortOf(previous_value)),
                                 Ev("firewall_allow", proto, PortOf(new_value))>>
                      /\ <<PortOf(new_value), proto>> \in fwRules
                      /\ previous_value # new_value
                            => <<PortOf(previous_value), proto>> \notin fwRules
                 ELSE /\ log = <<Ev("firewall_allow", proto, PortOf(new_value))>>
                      /\ <<PortOf(new_value), proto>> \in fwRules
            ELSE log = <<>>

\* the query port moved from one port to another
C10_Witness ==
    /\ op = "option_value_updated"
    /\ pc = "done"
    /\ fwArgs[1] = "Query Port"
    /\ fwArgs[2] # <<>>
    /\ fwArgs[2] # fwArgs[3]
    /\ Len(log) = 2

\* pieces joined by sep: pieces[1] sep pieces[2] sep ... pieces[n]
RECURSIVE JoinWith(_, _)
JoinWith(pieces, sep) ==
    IF Len(pieces) = 1 THEN pieces[1]
    ELSE pieces[1] \o sep \o JoinWith(Tail(pieces), sep)

\* texts without the token, and the ways to put up to two tokens between them
Pieces == {<<>>, <<"u", "p">>, <<"!">>, <<"a">>, <<"b">>, <<"{">>}
PieceLists ==
    {<<x>> : x \in Pieces}
        \cup {<<x, y>> : x \in Pieces, y \in Pieces}
        \cup {<<x, y, z>> : x \in Pieces, y \in Pieces, z \in Pieces}

\* C11: the start and the stop notification are the template with every
\* '{instance}' token replaced by the instance name, each token once and the
\* inserted name not expanded again; a template without the token is sent as
\* it is.
C11_PlaceholderSubstitution ==
    (op \in {"post_start", "pre_stop"} /\ Count(IsDiscord) = 1) =>
        /\ \E pieces \in PieceLists : JoinWith(pieces, Token) = notice.tpl
        /\ \A pieces \in PieceLists :
              JoinWith(pieces, Token) = notice.tpl
                  => notice.text = JoinWith(pieces, notice.name)
        /\ ~Contains(notice.tpl, Token) => notice.text = notice.tpl

\* a stop notification whose template holds the token twice was sent
C11_Witness ==
    /\ op = "pre_stop"
    /\ Count(IsDiscord) = 1
    /\ notice.tpl = <<"a">> \o Token \o <<"b">> \o Token
    /\ notice.name = <<"w">>
    /\ notice.text = <<"a", "w", "b", "w">>

\* a start notification without the token was sent
C11_WitnessPlain ==
    /\ op = "post_start"
    /\ Count(IsDiscord) = 1
    /\ notice.tpl = <<"u", "p">>
    /\ notice.text = <<"u", "p">>

\* the events of pre_stop are in the order of C12: the notification first,
\* one save after every query and warning, the settle wait last
SaveOrdered ==
    /\ Count(IsSave) = 1
    /\ \E i \in 1..Len(log) :
          /\ IsSave(log[i])
          /\ \A j \in 1..(i - 1) : ~IsSave(log[j])
          /\ \A j \in (i + 1)..Len(log) : ~IsCmd(log[j])
          /\ Len(log) = i + 1
          /\ log[i + 1] = Ev("sleep", "", 5)

\* C12: in pre_stop with the API enabled the 'instance stopping'
\* notification precedes every console command, and when pre_stop has ended
\* the forced save has been issued exactly once, after the last count query
\* and the last warning, as the last console command, followed by the
\* 5 second settle wait.
C12_EventOrder ==
    (op = "pre_stop" /\ ApiOn) =>
        /\ log[1] = Ev("discord", "stopping", 0)
        /\ \A j \in 2..Len(log) : ~IsDiscord(log[j])
        /\ (Ended /\ exc # "ValueError") => SaveOrdered

\* C12 on the calls that return: checked to see that the order itself is
\* the one the claim gives whenever no console command fails
C12_OrderOnReturn ==
    (op = "pre_stop" /\ ApiOn) =>
        /\ log[1] = Ev("discord", "stopping", 0)
        /\ \A j \in 2..Len(log) : ~IsDiscord(log[j])
        /\ Count(IsSave) <= 1
        /\ \A i \in 1..Len(log) : \A j \in (i + 1)..Len(log) :
              IsSave(log[i]) => ~IsCmd(log[j])
        /\ pc = "done" => SaveOrdered

\* the seconds pre_stop has waited after its warnings: every wait of the log
\* but the settle wait that follows the save
RECURSIVE WaitsBeforeSave(_)
WaitsBeforeSave(s) ==
    IF s = <<>> \/ IsSave(Head(s)) THEN 0
    ELSE (IF IsSleep(Head(s)) THEN Head(s).n ELSE 0) + WaitsBeforeSave(Tail(s))

\* C13 as stated: the warning waits of one pre_stop call never sum to more
\* than 270 seconds (4.5 minutes).
C13_AtMost270 == op = "pre_stop" => WaitsBeforeSave(log) <= 270

\* C13 amended: the warning waits of one pre_stop call never sum to more
\* than 300 seconds (5 minutes).
C13_AtMost300 == op = "pre_stop" => WaitsBeforeSave(log) <= 300

\* all seven warnings were sent and pre_stop returned after 300 seconds of
\* warning waits
C13_Witness ==
    /\ op = "pre_stop"
    /\ pc = "done"
    /\ Count(IsSay) = 7
    /\ WaitsBeforeSave(log) = 300

\* the lead times the seven warnings announce, in seconds: 5 min, 4 min,
\* 3 min, 2 min, 1 min, 30 sec, NOW
LeadTimes == <<300, 240, 180, 120, 60, 30, 0>>

\* C14: when the seven count queries of pre_stop all return a positive
\* count, the seven warnings are sent in the order of the schedule, each
\* straight after its query; the wait after each of the first six is the
\* difference of its lead time and the next one's, and no wait follows the
\* seventh: only the forced save does.
C14_FullSchedule ==
    (op = "pre_stop" /\ Count(IsPositive) = 7) =>
        /\ Count(IsSay) = 7
        /\ Count(IsList) = 7
        /\ \A i \in 1..6 :
              /\ log[4 * i - 2] = Ev("cmd", "/list", i)
              /\ IsPositive(log[4 * i - 1])
              /\ log[4 * i] = Ev("cmd", "/say", i)
              /\ log[4 * i + 1] = Ev("sleep", "", LeadTimes[i] - LeadTimes[i + 1])
        /\ log[26] = Ev("cmd", "/list", 7)
        /\ IsPositive(log[27])
        /\ log[28] = Ev("cmd", "/say", 7)
        /\ Len(log) > 28 => IsSave(log[29])

\* pre_stop returned after seven positive counts
C14_Witness ==
    /\ op = "pre_stop"
    /\ pc = "done"
    /\ Count(IsPositive) = 7
    /\ Len(log) = 30

\* C15 as stated: each positive count is followed by a message to the
\* NotificationSink, and the console commands of pre_stop are only the count
\* queries and the forced save.
C15_WarningsViaSink ==
    op = "pre_stop" =>
        /\ \A i \in 1..Len(log) : IsCmd(log[i]) => (IsList(log[i]) \/ IsSave(log[i]))
        /\ Count(IsDiscord) = 1 + Count(IsPositive)

\* C15 amended: each positive count is followed at once by that step's
\* warning as the console command '/say'; the NotificationSink gets the
\* 'instance stopping' notification only; the console commands of pre_stop
\* are the count queries, one '/say' per positive count and at most one
\* forced save.
C15_WarningsViaConsole ==
    op = "pre_stop" =>
        /\ \A i \in 1..Len(log) :
              IsPositive(log[i]) =>
                  /\ i < Len(log)
                  /\ log[i + 1] = Ev("cmd", "/say", log[i - 1].n)
        /\ Count(IsSay) = Count(IsPositive)
        /\ Count(IsDiscord) = 1
        /\ \A i \in 1..Len(log) :
              IsCmd(log[i]) => (IsList(log[i]) \/ IsSay(log[i]) \/ IsSave(log[i]))
        /\ Count(IsSave) <= 1

\* pre_stop returned after two warnings
C15_Witness ==
    /\ op = "pre_stop"
    /\ pc = "done"
    /\ Count(IsSay) = 2
    /\ Count(IsSave) = 1

\* C16: post_start and pre_stop issue console commands exactly when the API
\* is enabled, that is when 'Enable RCON' is set and 'RCON Port' and
\* 'RCON Password' are both non-empty: with any of the three missing no
\* console command is ever issued, and with all three a call does not end
\* without having issued one.
C16_CommandsOnlyWhenEnabled ==
    op \in {"post_start", "pre_stop"} =>
        /\ Count(IsCmd) > 0
              => (enableRcon = TRUE /\ rconPort # "" /\ rconPassword # "")
        /\ (enableRcon = TRUE /\ rconPort # "" /\ rconPassword # "" /\ Ended)
              => Count(IsCmd) > 0

\* post_start ended with port and password configured but RCON switched off
C16_Witness ==
    /\ op = "post_start"
    /\ pc = "done"
    /\ enableRcon = FALSE
    /\ rconPort # ""
    /\ rconPassword # ""
    /\ Count(IsCmd) = 0

\* the seconds waited so far
RECURSIVE TotalWait(_)
TotalWait(s) ==
    IF s = <<>> THEN 0
    ELSE (IF IsSleep(Head(s)) THEN Head(s).n ELSE 0) + TotalWait(Tail(s))

Running == pc \in {"ps_loop", "st_loop", "st_save"}

\* post_start polls at most 24 times, 10 seconds apart, and has waited 240
\* seconds exactly when it gave up; pre_stop queries the count at most 7 times
PollsBounded ==
    /\ op = "post_start" =>
          /\ Count(IsList) <= 24
          /\ \A i \in 1..Len(log) : IsSleep(log[i]) => log[i].n = 10
          /\ TotalWait(log) <= 240
          /\ (pc = "done" /\ result = "false") => TotalWait(log) = 240
          /\ TotalWait(log) = 240 => (Count(IsDefined) = 0 /\ result # "true")
    /\ op = "pre_stop" => Count(IsList) <= 7

\* C17: post_start and pre_stop always terminate, whatever the polls return:
\* a running handler eventually returns or raises; post_start makes at most
\* 24 polls 10 seconds apart, a total wait of at most 240 seconds that is
\* reached exactly when the polls are exhausted; pre_stop makes at most 7
\* count queries.
C17_Terminates == [](PollsBounded) /\ (Running ~> Ended)

\* post_start gave up after 240 seconds of waiting
C17_Witness ==
    /\ op = "post_start"
    /\ pc = "done"
    /\ result = "false"
    /\ TotalWait(log) = 240
    /\ Count(IsList) = 24

\* the ports open for a transport
OpenPorts(proto) == {r[1] : r \in {x \in fwRules : x[2] = proto}}

\* the one port an option's stored value denotes, none when it is unset
PortsOf(value) == IF value = <<>> THEN {} ELSE {PortOf(value)}

\* C18: when the port options are only set in a chain (each call gets the
\* value stored by the preceding one as previous_value, none at first),
\* after every call the open tcp rules are exactly the current 'Server
\* Port' and the open udp rules exactly the current 'Query Port': setting a
\* port to the value it has removes and re-opens its rule, and neither
\* option (nor any other) changes the other's rules.
C18_RulesFollowPorts ==
    /\ OpenPorts("tcp") = PortsOf(portOpt["Server Port"])
    /\ OpenPorts("udp") = PortsOf(portOpt["Query Port"])
    /\ \A r \in fwRules : r[2] \in {"tcp", "udp"}
    /\ (op = "option_value_updated" /\ fwArgs[1] \in {"Server Port", "Query Port"}
            /\ fwArgs[2] = fwArgs[3])
          => /\ Len(log) = 2
             /\ log[1].ev = "firewall_remove"
             /\ log[2].ev = "firewall_allow"
             /\ log[1].n = log[2].n

\* the server port was set again to the value it had, with a query port open
\* on the same number
C18_Witness ==
    /\ op = "option_value_updated"
    /\ pc = "done"
    /\ fwArgs[1] = "Server Port"
    /\ fwArgs[2] # <<>>
    /\ fwArgs[2] = fwArgs[3]
    /\ portOpt["Query Port"] = fwArgs[3]
    /\ Cardinality(fwRules) = 2

\* the schedule was cut short: a count query returned zero or None
CutShort == \E i \in 1..Len(log) : IsPlayers(log[i]) /\ ~IsPositive(log[i])

\* C19: in pre_stop with the API enabled every warning directly follows a
\* count query of its own step that returned a positive count, the queries
\* being made one per step; so once the loop is left there is one query more
\* than warnings when a count cut the schedule short, and there are exactly
\* 7 queries when all 7 warnings were sent.
C19_QueryBeforeEveryWarning ==
    (op = "pre_stop" /\ ApiOn) =>
        /\ \A i \in 1..Len(log) :
              IsSay(log[i]) =>
                  /\ i >= 3
                  /\ IsPositive(log[i - 1])
                  /\ log[i - 2] = Ev("cmd", "/list", log[i].n)
        /\ \A j \in 1..Count(IsList) : SelectSeq(log, IsList)[j].n = j
        /\ Count(IsSay) <= Count(IsList)
        /\ Count(IsList) <= Count(IsSay) + 1
        /\ CutShort => Count(IsList) = Count(IsSay) + 1
        /\ Count(IsSay) = 7 => Count(IsList) = 7

\* pre_stop returned after three warnings and a fourth query that found
\* nobody online
C19_Witness ==
    /\ op = "pre_stop"
    /\ pc = "done"
    /\ CutShort
    /\ Count(IsSay) = 3
    /\ Count(IsList) = 4

====
